---- MODULE Spec2Model ----
\* A state-machine model of the bytecode interpreter of src/main.py:
\* class Frame (operand stack, three name scopes, dispatch loop, the opcode
\* handlers) and class VirtualMachine (the entry point).
EXTENDS Integers, Sequences, FiniteSets, TLC

VARIABLES
    frames,   \* the call stack: one record per live Frame, the executing one last
    dicts,    \* the heap of dict objects frames and closures refer to by index
    iters,    \* the heap of iterator objects, each a sequence and a cursor
    status,   \* "running", "returned" (run() gave a value) or "raised"
    result,   \* the value run() returned, or the exception that propagated
    last,     \* the instruction dispatched by the latest step and its frame before it
    hist      \* history: the defining frame's locals as each function was built,
              \* and the value of the latest store of each name by the root frame

vars == <<frames, dicts, iters, status, result, last, hist>>

\* ---------------------------------------------------------------- bounds
MaxVal == 2       \* integer constants of the generated programs are 0..MaxVal
MaxLen == 2       \* sequences of the generated programs have at most MaxLen items
MaxDepth == 8     \* the host's recursion limit, counted in nested frames

Vals == 0..MaxVal

\* ---------------------------------------------------------------- values
\* Every runtime value is a record [k, v]: k is the kind, v the payload.
NoneV == [k |-> "none", v |-> 0]
IntV(n) == [k |-> "int", v |-> n]
BoolV(b) == [k |-> "bool", v |-> b]
StrV(s) == [k |-> "str", v |-> s]
TupleV(s) == [k |-> "tuple", v |-> s]
ListV(s) == [k |-> "list", v |-> s]
CodeV(c) == [k |-> "code", v |-> c]
IterV(i) == [k |-> "iter", v |-> i]
ExcV(e) == [k |-> "exception", v |-> e]
\* an instance of a host class that defines the method m(self, *a) as a Python
\* function returning (self, *a), and exposes the C-implemented method b
ObjV(o) == [k |-> "object", v |-> o]
\* the bound method getattr(receiver, name) of such an instance
MethV(recv, name) == [k |-> "method", v |-> [recv |-> recv, name |-> name]]
\* a function of the host's builtins module, that module, and a reference to
\* one of the mappings of dicts
BuiltinV(name) == [k |-> "builtin_function", v |-> name]
ModuleV(name) == [k |-> "module", v |-> name]
DictV(d) == [k |-> "dict", v |-> d]
\* the closure f of make_function: its cells code and defaults, holding
\* whatever values were popped (has_defaults is FALSE when the cell defaults
\* was never assigned) and, through the cell self, the three mappings of the
\* defining frame; id tells function objects apart (the n-th one built)
FuncV(id, code, has_defaults, defaults, fr) ==
    [k |-> "function",
     v |-> [id |-> id, code |-> code, has_defaults |-> has_defaults, defaults |-> defaults,
            locals |-> fr.locals, globals |-> fr.globals, builtins |-> fr.builtins]]

\* ---------------------------------------------------------------- mappings
EmptyMap == [n \in {} |-> NoneV]
MapSet(m, key, val) == [n \in DOMAIN m \cup {key} |-> IF n = key THEN val ELSE m[n]]
\* (variant of MapUpdate: an entry already present is kept)
MapUpdate_keeps_present(m1, m2) ==
    [n \in DOMAIN m1 \cup DOMAIN m2 |-> IF n \in DOMAIN m1 THEN m1[n] ELSE m2[n]]

\* dict.update: the entries of m2 win
MapUpdate(m1, m2) == [n \in DOMAIN m1 \cup DOMAIN m2 |-> IF n \in DOMAIN m2 THEN m2[n] ELSE m1[n]]

Reverse(s) == [i \in 1..Len(s) |-> s[Len(s) + 1 - i]]

\* ---------------------------------------------------------------- code units
\* dis.Instruction: opname, the raw operand arg, the decoded operand argval
\* and the offset in the byte stream (two bytes per code word).
WithOffsets(ops) ==
    [i \in 1..Len(ops) |->
        [opname |-> ops[i][1], arg |-> ops[i][2], argval |-> ops[i][3], offset |-> 2 * (i - 1)]]

Code(argcount, varnames, names, ops) ==
    [co_argcount |-> argcount, co_varnames |-> varnames, co_names |-> names,
     instructions |-> WithOffsets(ops)]

\* operand forms
OpN(op) == <<op, 0, NoneV>>
OpC(op, val) == <<op, 0, val>>
OpI(op, n) == <<op, n, IntV(n)>>
OpS(op, s) == <<op, 0, StrV(s)>>

\* ---------------------------------------------------------------- Frame
Frame(frame_code, frame_builtins, frame_globals, frame_locals) ==
    [code |-> frame_code, builtins |-> frame_builtins, globals |-> frame_globals,
     locals |-> frame_locals, data_stack |-> <<>>, ind_op |-> 0, return_value |-> NoneV]

top(f) == f.data_stack[Len(f.data_stack)]
peek(f) == f.data_stack[Len(f.data_stack)]
pop(f) == [f EXCEPT !.data_stack = SubSeq(f.data_stack, 1, Len(f.data_stack) - 1)]
push(f, values) == [f EXCEPT !.data_stack = f.data_stack \o values]
Max(a, b) == IF a > b THEN a ELSE b
\* popn returns the list and shortens the stack: popn_values and popn_frame
\* (variant of popn_values: the top value first)
popn_values_top_first(f, n) ==
    IF n > 0
    THEN Reverse(SubSeq(f.data_stack, Max(1, Len(f.data_stack) - n + 1), Len(f.data_stack)))
    ELSE <<>>

popn_values(f, n) ==
    IF n > 0 THEN SubSeq(f.data_stack, Max(1, Len(f.data_stack) - n + 1), Len(f.data_stack))
    ELSE <<>>
popn_frame(f, n) ==
    IF n > 0 THEN [f EXCEPT !.data_stack = SubSeq(f.data_stack, 1, Len(f.data_stack) - n)]
    ELSE f

instructions(f) == f.code.instructions
offset_to_index(f) ==
    [o \in {instructions(f)[i].offset : i \in 1..Len(instructions(f))} |->
        (CHOOSE i \in 1..Len(instructions(f)) : instructions(f)[i].offset = o) - 1]

\* ---------------------------------------------------------------- dispatch
Depth == Len(frames)
Cur == frames[Depth]
InLoop == status = "running" /\ Depth > 0 /\ Cur.ind_op < Len(instructions(Cur))
Instr == instructions(Cur)[Cur.ind_op + 1]
Dispatch(op) == InLoop /\ Instr.opname = op

Note == last' = [opname |-> Instr.opname, argval |-> Instr.argval, arg |-> Instr.arg,
                 depth |-> Depth, pre |-> Cur]

\* the tail of the loop body: advance unless the handler moved ind_op
Advance(f, old_ind) == IF f.ind_op = old_ind THEN [f EXCEPT !.ind_op = old_ind + 1] ELSE f

\* the handler ended normally leaving the frame as f2
Done(f2) ==
    /\ frames' = [frames EXCEPT ![Depth] = Advance(f2, Cur.ind_op)]
    /\ UNCHANGED <<status, result>>

\* the handler raised exc after changing the frame to f2; nothing catches it
Raise(exc, f2) ==
    /\ frames' = [frames EXCEPT ![Depth] = f2]
    /\ status' = "raised"
    /\ result' = ExcV(exc)

\* frame.run() returned val: to VirtualMachine.run for the root frame, else
\* into push(f(*arguments)) of the caller's call handler
ReturnTo(val) ==
    IF Depth = 1
    THEN /\ frames' = <<>>
         /\ status' = "returned"
         /\ result' = val
    ELSE /\ frames' = [SubSeq(frames, 1, Depth - 1) EXCEPT
                          ![Depth - 1] = Advance(push(frames[Depth - 1], <<val>>),
                                                 frames[Depth - 1].ind_op)]
         /\ UNCHANGED <<status, result>>

\* ---------------------------------------------------------------- handlers
\* run, lines 60-61: the opcode return_value leaves the loop with the popped top
run_return_value ==
    /\ Dispatch("return_value")
    /\ Note
    /\ IF Len(Cur.data_stack) = 0 THEN Raise("IndexError", Cur) ELSE ReturnTo(top(Cur))
    /\ UNCHANGED <<dicts, iters>>
    /\ UNCHANGED hist

\* run, line 56: the loop condition fails and run falls off its end
run_end ==
    /\ status = "running" /\ Depth > 0 /\ Cur.ind_op >= Len(instructions(Cur))
    /\ last' = [opname |-> "<end>", argval |-> NoneV, arg |-> 0, depth |-> Depth, pre |-> Cur]
    /\ ReturnTo(NoneV)
    /\ UNCHANGED <<dicts, iters>>
    /\ UNCHANGED hist

return_const ==
    /\ Dispatch("return_const")
    /\ Note
    /\ Done([Cur EXCEPT !.return_value = Instr.argval])
    /\ UNCHANGED <<dicts, iters>>
    /\ UNCHANGED hist

load_const ==
    /\ Dispatch("load_const")
    /\ Note
    /\ Done(push(Cur, <<Instr.argval>>))
    /\ UNCHANGED <<dicts, iters>>
    /\ UNCHANGED hist

pop_top ==
    /\ Dispatch("pop_top")
    /\ Note
    /\ IF Len(Cur.data_stack) = 0 THEN Raise("IndexError", Cur) ELSE Done(pop(Cur))
    /\ UNCHANGED <<dicts, iters>>
    /\ UNCHANGED hist

\* ---------------------------------------------------------------- names
\* (variant of load_name: globals are tried before locals)
load_name_globals_first ==
    /\ Dispatch("load_name")
    /\ Note
    /\ LET arg == Instr.argval.v IN
       IF arg \in DOMAIN dicts[Cur.globals] THEN Done(push(Cur, <<dicts[Cur.globals][arg]>>))
       ELSE IF arg \in DOMAIN dicts[Cur.locals] THEN Done(push(Cur, <<dicts[Cur.locals][arg]>>))
       ELSE IF arg \in DOMAIN dicts[Cur.builtins] THEN Done(push(Cur, <<dicts[Cur.builtins][arg]>>))
       ELSE Raise("NameError", Cur)
    /\ UNCHANGED <<dicts, iters>>
    /\ UNCHANGED hist

load_name ==
    /\ Dispatch("load_name")
    /\ Note
    /\ LET arg == Instr.argval.v IN
       IF arg \in DOMAIN dicts[Cur.locals] THEN Done(push(Cur, <<dicts[Cur.locals][arg]>>))
       ELSE IF arg \in DOMAIN dicts[Cur.globals] THEN Done(push(Cur, <<dicts[Cur.globals][arg]>>))
       ELSE IF arg \in DOMAIN dicts[Cur.builtins] THEN Done(push(Cur, <<dicts[Cur.builtins][arg]>>))
       ELSE Raise("NameError", Cur)
    /\ UNCHANGED <<dicts, iters>>
    /\ UNCHANGED hist

\* (variant of load_global: locals are tried first, as load_name does)
load_global_locals_first ==
    /\ Dispatch("load_global")
    /\ Note
    /\ LET arg == Instr.argval.v IN
       IF arg \in DOMAIN dicts[Cur.locals] THEN Done(push(Cur, <<dicts[Cur.locals][arg]>>))
       ELSE IF arg \in DOMAIN dicts[Cur.globals] THEN Done(push(Cur, <<dicts[Cur.globals][arg]>>))
       ELSE IF arg \in DOMAIN dicts[Cur.builtins] THEN Done(push(Cur, <<dicts[Cur.builtins][arg]>>))
       ELSE Raise("NameError", Cur)
    /\ UNCHANGED <<dicts, iters>>
    /\ UNCHANGED hist

load_global ==
    /\ Dispatch("load_global")
    /\ Note
    /\ LET arg == Instr.argval.v IN
       IF arg \in DOMAIN dicts[Cur.globals] THEN Done(push(Cur, <<dicts[Cur.globals][arg]>>))
       ELSE IF arg \in DOMAIN dicts[Cur.builtins] THEN Done(push(Cur, <<dicts[Cur.builtins][arg]>>))
       ELSE Raise("NameError", Cur)
    /\ UNCHANGED <<dicts, iters>>
    /\ UNCHANGED hist

load_fast ==
    /\ Dispatch("load_fast")
    /\ Note
    /\ LET arg == Instr.argval.v IN
       IF arg \in DOMAIN dicts[Cur.locals] THEN Done(push(Cur, <<dicts[Cur.locals][arg]>>))
       ELSE Raise("KeyError", Cur)
    /\ UNCHANGED <<dicts, iters>>
    /\ UNCHANGED hist

\* (variant of store_name: the value is written into the frame's globals)
store_name_into_globals ==
    /\ Dispatch("store_name")
    /\ Note
    /\ IF Len(Cur.data_stack) = 0
       THEN Raise("IndexError", Cur) /\ UNCHANGED dicts
       ELSE /\ Done(pop(Cur))
            /\ dicts' = [dicts EXCEPT ![Cur.globals] = MapSet(@, Instr.argval.v, top(Cur))]
    /\ UNCHANGED iters
    /\ hist' = IF Len(Cur.data_stack) > 0 /\ Depth = 1
               THEN [hist EXCEPT !.stored = MapSet(@, Instr.argval.v, top(Cur))]
               ELSE hist

store_name ==
    /\ Dispatch("store_name")
    /\ Note
    /\ IF Len(Cur.data_stack) = 0
       THEN Raise("IndexError", Cur) /\ UNCHANGED dicts
       ELSE /\ Done(pop(Cur))
            /\ dicts' = [dicts EXCEPT ![Cur.locals] = MapSet(@, Instr.argval.v, top(Cur))]
    /\ UNCHANGED iters
    /\ hist' = IF Len(Cur.data_stack) > 0 /\ Depth = 1
               THEN [hist EXCEPT !.stored = MapSet(@, Instr.argval.v, top(Cur))]
               ELSE hist

\* (variant of store_fast: the value is written into the frame's globals)
store_fast_into_globals ==
    /\ Dispatch("store_fast")
    /\ Note
    /\ IF Len(Cur.data_stack) = 0
       THEN Raise("IndexError", Cur) /\ UNCHANGED dicts
       ELSE /\ Done(pop(Cur))
            /\ dicts' = [dicts EXCEPT ![Cur.globals] = MapSet(@, Instr.argval.v, top(Cur))]
    /\ UNCHANGED iters
    /\ hist' = IF Len(Cur.data_stack) > 0 /\ Depth = 1
               THEN [hist EXCEPT !.stored = MapSet(@, Instr.argval.v, top(Cur))]
               ELSE hist

store_fast ==
    /\ Dispatch("store_fast")
    /\ Note
    /\ IF Len(Cur.data_stack) = 0
       THEN Raise("IndexError", Cur) /\ UNCHANGED dicts
       ELSE /\ Done(pop(Cur))
            /\ dicts' = [dicts EXCEPT ![Cur.locals] = MapSet(@, Instr.argval.v, top(Cur))]
    /\ UNCHANGED iters
    /\ hist' = IF Len(Cur.data_stack) > 0 /\ Depth = 1
               THEN [hist EXCEPT !.stored = MapSet(@, Instr.argval.v, top(Cur))]
               ELSE hist

\* ---------------------------------------------------------------- functions
\* the operand's flag bits, in the order make_function tests them
Flag(arg, bit) == (arg \div bit) % 2 = 1
FlagCount(arg) == LET S == {b \in {1, 2, 4, 8} : Flag(arg, b)} IN Cardinality(S)

make_function ==
    /\ Dispatch("make_function")
    /\ Note
    /\ LET arg == Instr.arg
           n == FlagCount(arg) + 1
           popped == popn_values(Cur, n)     \* code, then the components present
           code == popped[1]
           defaults == popped[2]             \* deepest of the components when bit 0x01 is set
       IN IF Len(Cur.data_stack) < n THEN Raise("IndexError", Cur)
          ELSE Done(push(popn_frame(Cur, n),
                         <<FuncV(Len(hist.built) + 1, code, Flag(arg, 1),
                                 IF Flag(arg, 1) THEN defaults ELSE NoneV, Cur)>>))
    /\ UNCHANGED <<dicts, iters>>
    /\ hist' = IF Len(Cur.data_stack) < FlagCount(Instr.arg) + 1 THEN hist
               ELSE [hist EXCEPT !.built = Append(@, dicts[Cur.locals])]

\* the closure f, lines 160-166: the parameters bound from args and kwargs
parsed_args(code, defaults, args, kwargs) ==
    LET bound == {i \in 0..(code.co_argcount - 1) :
                      i < Len(args) \/ i >= code.co_argcount - Len(defaults)}
        value(i) == IF i < Len(args) THEN args[i + 1]
                    ELSE defaults[i - (code.co_argcount - Len(defaults)) + 1]
        positional == [n \in {code.co_varnames[i + 1] : i \in bound} |->
                          value(CHOOSE i \in bound : code.co_varnames[i + 1] = n)]
    IN MapUpdate(positional, kwargs)

\* the exception the binding loop of f raises, "" when it raises none:
\* line 161 reads code.co_argcount, line 164 reads the cell defaults (empty
\* when bit 0x01 was clear) and takes its len
f_exception(fn, args) ==
    IF fn.code.k # "code" THEN "AttributeError"
    ELSE IF \A i \in 0..(fn.code.v.co_argcount - 1) : i < Len(args) THEN ""
    ELSE IF ~fn.has_defaults THEN "NameError"
    ELSE IF ~(fn.defaults.k \in {"tuple", "list"}) THEN "TypeError"
    ELSE ""

\* (variant of f_locals: the environment captured when the function was built)
f_locals_at_build(fn, args, kwargs) ==
    MapUpdate(hist.built[fn.id],
              parsed_args(fn.code.v,
                          IF fn.has_defaults /\ fn.defaults.k \in {"tuple", "list"}
                          THEN fn.defaults.v ELSE <<>>,
                          args, kwargs))

\* lines 167-168: the locals of the frame the closure runs
f_locals(fn, args, kwargs) ==
    MapUpdate(dicts[fn.locals],
              parsed_args(fn.code.v,
                          IF fn.has_defaults /\ fn.defaults.k \in {"tuple", "list"}
                          THEN fn.defaults.v ELSE <<>>,
                          args, kwargs))

\* what the host's len returns, an exception when it raises
BuiltinResult(name, args) ==
    IF Len(args) # 1 THEN ExcV("TypeError")
    ELSE IF args[1].k \in {"tuple", "list", "str"} THEN IntV(Len(args[1].v))
    ELSE IF args[1].k = "set" THEN IntV(Cardinality(args[1].v))
    ELSE IF args[1].k = "dict" THEN IntV(Cardinality(DOMAIN dicts[args[1].v]))
    ELSE ExcV("TypeError")

\* what the host's bound methods m and b return: (self, *a)
MethodResult(meth, args) == TupleV(<<meth.recv>> \o args)

\* call, lines 84-86; f(*arguments) passes no keyword argument
call ==
    /\ Dispatch("call")
    /\ Note
    /\ LET arg == Instr.argval.v
           arguments == popn_values(Cur, arg)
           f1 == popn_frame(Cur, arg)
           f == top(f1)
           caller == pop(f1)
       IN IF Len(f1.data_stack) = 0 THEN Raise("IndexError", f1) /\ UNCHANGED dicts
          ELSE IF f.k = "function"
          THEN IF f_exception(f.v, arguments) # ""
               THEN Raise(f_exception(f.v, arguments), caller) /\ UNCHANGED dicts
               ELSE IF Depth >= MaxDepth
               THEN Raise("RecursionError", caller) /\ UNCHANGED dicts
               ELSE /\ dicts' = Append(dicts, f_locals(f.v, arguments, EmptyMap))
                    /\ frames' = Append([frames EXCEPT ![Depth] = caller],
                                        Frame(f.v.code.v, f.v.builtins, f.v.globals, Len(dicts) + 1))
                    /\ UNCHANGED <<status, result>>
          ELSE IF f.k = "method"
          THEN Done(push(caller, <<MethodResult(f.v, arguments)>>)) /\ UNCHANGED dicts
          ELSE IF f.k = "builtin_function"
          THEN /\ IF BuiltinResult(f.v, arguments).k = "exception"
                  THEN Raise(BuiltinResult(f.v, arguments).v, caller)
                  ELSE Done(push(caller, <<BuiltinResult(f.v, arguments)>>))
               /\ UNCHANGED dicts
          ELSE Raise("TypeError", caller) /\ UNCHANGED dicts
    /\ UNCHANGED iters
    /\ UNCHANGED hist

kw_names ==
    /\ Dispatch("kw_names")
    /\ Note
    /\ Done(Cur)
    /\ UNCHANGED <<dicts, iters>>
    /\ UNCHANGED hist

\* ---------------------------------------------------------------- attributes
\* getattr on the host's values: instances have the method m (a Python
\* function), the method b (C-implemented) and the data attribute d
\* a builtin function has __self__, the builtins module, whose __dict__ is
\* the mapping every frame has as builtins
HasAttr(value, name) ==
    \/ value.k = "object" /\ name \in {"m", "b", "d"}
    \/ value.k = "builtin_function" /\ name = "__self__"
    \/ value.k = "module" /\ name = "__dict__"
GetAttr(value, name) ==
    IF value.k = "builtin_function" THEN ModuleV("builtins")
    ELSE IF value.k = "module" THEN DictV(1)
    ELSE IF name = "d" THEN IntV(value.v) ELSE MethV(value, name)
\* only bound methods of Python functions have __get__, and it returns them
HasGet(attr) == attr.k = "method" /\ attr.v.name = "m"

load_attr ==
    /\ Dispatch("load_attr")
    /\ Note
    /\ LET namei == Instr.arg
           value == top(Cur)
           f1 == pop(Cur)
           name == Cur.code.co_names[(namei \div 2) + 1]
       IN IF Len(Cur.data_stack) = 0 THEN Raise("IndexError", Cur)
          ELSE IF namei % 2 = 1
          THEN IF HasAttr(value, name) /\ HasGet(GetAttr(value, name))
               THEN Done(push(f1, <<GetAttr(value, name), value>>))
               ELSE IF HasAttr(value, name)
               THEN Done(push(f1, <<NoneV, GetAttr(value, name)>>))
               ELSE Raise("AttributeError", push(f1, <<NoneV>>))
          ELSE IF HasAttr(value, name)
               THEN Done(push(f1, <<GetAttr(value, name)>>))
               ELSE Raise("AttributeError", f1)
    /\ UNCHANGED <<dicts, iters>>
    /\ UNCHANGED hist

\* ---------------------------------------------------------------- loops
IsSeq(value) == value.k \in {"tuple", "list"}

get_iter ==
    /\ Dispatch("get_iter")
    /\ Note
    /\ LET value == top(Cur) IN
       IF Len(Cur.data_stack) = 0 THEN Raise("IndexError", Cur) /\ UNCHANGED iters
       ELSE IF value.k = "iter" THEN Done(Cur) /\ UNCHANGED iters
       ELSE IF IsSeq(value)
       THEN /\ iters' = Append(iters, [seq |-> value.v, pos |-> 0])
            /\ Done(push(pop(Cur), <<IterV(Len(iters) + 1)>>))
       ELSE Raise("TypeError", pop(Cur)) /\ UNCHANGED iters
    /\ UNCHANGED dicts
    /\ UNCHANGED hist

\* (variant of for_iter: on exhaustion the iterator is popped before the jump)
for_iter_pops_exhausted ==
    /\ Dispatch("for_iter")
    /\ Note
    /\ LET argval == Instr.argval.v
           iterator == peek(Cur)
       IN IF Len(Cur.data_stack) = 0 THEN Raise("IndexError", Cur) /\ UNCHANGED iters
          ELSE IF iterator.k # "iter" THEN Raise("TypeError", Cur) /\ UNCHANGED iters
          ELSE IF iters[iterator.v].pos < Len(iters[iterator.v].seq)
          THEN /\ iters' = [iters EXCEPT ![iterator.v].pos = @ + 1]
               /\ Done(push(Cur, <<iters[iterator.v].seq[iters[iterator.v].pos + 1]>>))
          ELSE /\ UNCHANGED iters
               /\ IF argval \in DOMAIN offset_to_index(Cur)
                  THEN Done([pop(Cur) EXCEPT !.ind_op = offset_to_index(Cur)[argval]])
                  ELSE Raise("KeyError", Cur)
    /\ UNCHANGED dicts
    /\ UNCHANGED hist

for_iter ==
    /\ Dispatch("for_iter")
    /\ Note
    /\ LET argval == Instr.argval.v
           iterator == peek(Cur)
       IN IF Len(Cur.data_stack) = 0 THEN Raise("IndexError", Cur) /\ UNCHANGED iters
          ELSE IF iterator.k # "iter" THEN Raise("TypeError", Cur) /\ UNCHANGED iters
          ELSE IF iters[iterator.v].pos < Len(iters[iterator.v].seq)
          THEN /\ iters' = [iters EXCEPT ![iterator.v].pos = @ + 1]
               /\ Done(push(Cur, <<iters[iterator.v].seq[iters[iterator.v].pos + 1]>>))
          ELSE /\ UNCHANGED iters
               /\ IF argval \in DOMAIN offset_to_index(Cur)
                  THEN Done([Cur EXCEPT !.ind_op = offset_to_index(Cur)[argval]])
                  ELSE Raise("KeyError", Cur)
    /\ UNCHANGED dicts
    /\ UNCHANGED hist

end_for ==
    /\ Dispatch("end_for")
    /\ Note
    /\ IF Len(Cur.data_stack) = 0 THEN Raise("IndexError", Cur) ELSE Done(pop(Cur))
    /\ UNCHANGED <<dicts, iters>>
    /\ UNCHANGED hist

jump_backward ==
    /\ Dispatch("jump_backward")
    /\ Note
    /\ IF Instr.argval.v \in DOMAIN offset_to_index(Cur)
       THEN Done([Cur EXCEPT !.ind_op = offset_to_index(Cur)[Instr.argval.v]])
       ELSE Raise("KeyError", Cur)
    /\ UNCHANGED <<dicts, iters>>
    /\ UNCHANGED hist

\* ---------------------------------------------------------------- stack shuffles
\* (variant of RevSlice: the items in their original order)
RevSlice_forward(seq, count) ==
    LET n == IF count < Len(seq) THEN count ELSE Len(seq)
    IN [i \in 1..n |-> seq[Len(seq) - n + i]]

\* seq[:-count - 1:-1]: the last min(count, len) items, last first
RevSlice(seq, count) ==
    LET n == IF count < Len(seq) THEN count ELSE Len(seq)
    IN [i \in 1..n |-> seq[Len(seq) + 1 - i]]

unpack_sequence ==
    /\ Dispatch("unpack_sequence")
    /\ Note
    /\ LET count == Instr.argval.v IN
       IF Len(Cur.data_stack) = 0 THEN Raise("IndexError", Cur)
       ELSE IF ~IsSeq(top(Cur)) THEN Raise("TypeError", Cur)
       ELSE IF Len(top(Cur).v) # count THEN Raise("AssertionError", Cur)
       ELSE Done(push(pop(Cur), RevSlice(top(Cur).v, count)))
    /\ UNCHANGED <<dicts, iters>>
    /\ UNCHANGED hist

\* data_stack[-i] as a 1-based position: -0 is the bottom slot
Slot(f, i) == IF i = 0 THEN 1 ELSE Len(f.data_stack) + 1 - i

swap ==
    /\ Dispatch("swap")
    /\ Note
    /\ LET i == Instr.argval.v
           n == Len(Cur.data_stack)
       IN IF n = 0 \/ i > n THEN Raise("IndexError", Cur)
          ELSE Done([Cur EXCEPT !.data_stack =
                        [@ EXCEPT ![Slot(Cur, i)] = Cur.data_stack[n],
                                  ![n] = Cur.data_stack[Slot(Cur, i)]]])
    /\ UNCHANGED <<dicts, iters>>
    /\ UNCHANGED hist

\* ---------------------------------------------------------------- operators
\* The host's arithmetic on int operands, the only operands of the programs
\* below; any other operand kind is shown as the TypeError of an unsupported
\* pair.  A float is kept as the fraction it is the quotient of.
RECURSIVE GCD(_, _)
GCD(a, b) == IF b = 0 THEN a ELSE GCD(b, a % b)
Abs(a) == IF a < 0 THEN -a ELSE a
FloatV(n, d) ==
    LET g == GCD(Abs(n), Abs(d))
        s == IF d < 0 THEN -1 ELSE 1
    IN [k |-> "float", v |-> <<(s * n) \div g, (s * d) \div g>>]
RECURSIVE Pow(_, _)
Pow(a, n) == IF n = 0 THEN 1 ELSE a * Pow(a, n - 1)
FloorDiv(a, b) == IF b > 0 THEN a \div b ELSE (-a) \div (-b)
Mod(a, b) == a - b * FloorDiv(a, b)
\* bit i of the two's complement form of a
Bit(a, i) == (a \div Pow(2, i)) % 2
\* a bitwise operator given by its truth table f on single bits
BitAnd(x, y) == x * y
BitOr(x, y) == IF x + y > 0 THEN 1 ELSE 0
BitXor(x, y) == (x + y) % 2
BitOf(sym, x, y) ==
    IF sym = "&" THEN BitAnd(x, y) ELSE IF sym = "|" THEN BitOr(x, y) ELSE BitXor(x, y)
Bitwise(sym, a, b) ==
    LET RECURSIVE Sum(_)
        Sum(i) == IF i < 0 THEN 0
                  ELSE BitOf(sym, Bit(a, i), Bit(b, i)) * Pow(2, i) + Sum(i - 1)
        sa == IF a < 0 THEN 1 ELSE 0
        sb == IF b < 0 THEN 1 ELSE 0
    IN Sum(7) - BitOf(sym, sa, sb) * Pow(2, 8)

\* binary_op, lines 189-214: the result for the operator code op
binary_result(op, left, right) ==
    IF left.k # "int" \/ right.k # "int" THEN ExcV("TypeError")
    ELSE LET a == left.v
             b == right.v
         IN IF op = 0 \/ op = 13 THEN IntV(a + b)
            ELSE IF op = 10 \/ op = 23 THEN IntV(a - b)
            ELSE IF op = 5 \/ op = 18 THEN IntV(a * b)
            ELSE IF op = 11 \/ op = 24
                 THEN IF b = 0 THEN ExcV("ZeroDivisionError") ELSE FloatV(a, b)
            ELSE IF op = 2 \/ op = 15
                 THEN IF b = 0 THEN ExcV("ZeroDivisionError") ELSE IntV(FloorDiv(a, b))
            ELSE IF op = 6 \/ op = 19
                 THEN IF b = 0 THEN ExcV("ZeroDivisionError") ELSE IntV(Mod(a, b))
            ELSE IF op = 1 \/ op = 14 THEN IntV(Bitwise("&", a, b))
            ELSE IF op = 12 \/ op = 25 THEN IntV(Bitwise("^", a, b))
            ELSE IF op = 8 \/ op = 21
                 THEN IF b >= 0 THEN IntV(Pow(a, b))
                      ELSE IF a = 0 THEN ExcV("ZeroDivisionError")
                      ELSE FloatV(1, Pow(a, -b))
            ELSE IF op = 7 \/ op = 20 THEN IntV(Bitwise("|", a, b))
            ELSE IF op = 3 \/ op = 16
                 THEN IF b < 0 THEN ExcV("ValueError") ELSE IntV(a * Pow(2, b))
            ELSE IF op = 9 \/ op = 22
                 THEN IF b < 0 THEN ExcV("ValueError") ELSE IntV(a \div Pow(2, b))
            ELSE ExcV("NotImplementedError")

\* (variant of binary_op: the first value popped is taken as the left operand)
binary_op_left_popped_first ==
    /\ Dispatch("binary_op")
    /\ Note
    /\ IF Len(Cur.data_stack) < 2
       THEN Raise("IndexError", popn_frame(Cur, Len(Cur.data_stack)))
       ELSE LET left == top(Cur)
                right == top(pop(Cur))
                res == binary_result(Instr.argval.v, left, right)
            IN IF res.k = "exception" THEN Raise(res.v, pop(pop(Cur)))
               ELSE Done(push(pop(pop(Cur)), <<res>>))
    /\ UNCHANGED <<dicts, iters>>
    /\ UNCHANGED hist

binary_op ==
    /\ Dispatch("binary_op")
    /\ Note
    /\ IF Len(Cur.data_stack) < 2
       THEN Raise("IndexError", popn_frame(Cur, Len(Cur.data_stack)))
       ELSE LET right == top(Cur)
                left == top(pop(Cur))
                res == binary_result(Instr.argval.v, left, right)
            IN IF res.k = "exception" THEN Raise(res.v, pop(pop(Cur)))
               ELSE Done(push(pop(pop(Cur)), <<res>>))
    /\ UNCHANGED <<dicts, iters>>
    /\ UNCHANGED hist

\* compare_op, lines 219-244: the result for the operator name op
compare_result(op, left, right) ==
    LET ints == left.k = "int" /\ right.k = "int" IN
    IF op = "<" THEN IF ints THEN BoolV(left.v < right.v) ELSE ExcV("TypeError")
    ELSE IF op = "<=" THEN IF ints THEN BoolV(left.v <= right.v) ELSE ExcV("TypeError")
    ELSE IF op = "==" THEN BoolV(left = right)
    ELSE IF op = "!=" THEN BoolV(left # right)
    ELSE IF op = ">" THEN IF ints THEN BoolV(left.v > right.v) ELSE ExcV("TypeError")
    ELSE IF op = ">=" THEN IF ints THEN BoolV(left.v >= right.v) ELSE ExcV("TypeError")
    ELSE IF op = "in"
         THEN IF IsSeq(right) THEN BoolV(\E i \in 1..Len(right.v) : right.v[i] = left)
              ELSE ExcV("TypeError")
    ELSE IF op = "not in"
         THEN IF IsSeq(right) THEN BoolV(\A i \in 1..Len(right.v) : right.v[i] # left)
              ELSE ExcV("TypeError")
    \* the host keeps one object per small int, so identity is equality here
    ELSE IF op = "is" THEN BoolV(left = right)
    ELSE IF op = "is not" THEN BoolV(left # right)
    \* issubclass of a value that is no class
    ELSE IF op = "exception match" THEN ExcV("TypeError")
    ELSE IF op = "BAD" THEN ExcV("RuntimeError")
    ELSE ExcV("NotImplementedError")

compare_op ==
    /\ Dispatch("compare_op")
    /\ Note
    /\ IF Len(Cur.data_stack) < 2
       THEN Raise("IndexError", popn_frame(Cur, Len(Cur.data_stack)))
       ELSE LET right == top(Cur)
                left == top(pop(Cur))
                res == compare_result(Instr.argval.v, left, right)
            IN IF res.k = "exception" THEN Raise(res.v, pop(pop(Cur)))
               ELSE Done(push(pop(pop(Cur)), <<res>>))
    /\ UNCHANGED <<dicts, iters>>
    /\ UNCHANGED hist

\* ---------------------------------------------------------------- jumps
\* the host's truth value of a value
Truthy(value) ==
    IF value.k = "none" THEN FALSE
    ELSE IF value.k = "bool" THEN value.v
    ELSE IF value.k = "int" THEN value.v # 0
    ELSE IF value.k = "float" THEN value.v[1] # 0
    ELSE IF value.k \in {"str"} THEN value.v # ""
    ELSE IF value.k \in {"tuple", "list"} THEN value.v # <<>>
    ELSE IF value.k = "set" THEN value.v # {}
    ELSE IF value.k = "dict" THEN DOMAIN dicts[value.v] # {}
    ELSE TRUE

\* the assignment ind_op = offset_to_index[argval] of the jump handlers
JumpTo(f, argval) ==
    IF argval \in DOMAIN offset_to_index(f)
    THEN Done([f EXCEPT !.ind_op = offset_to_index(f)[argval]])
    ELSE Raise("KeyError", f)

pop_jump_if_false ==
    /\ Dispatch("pop_jump_if_false")
    /\ Note
    /\ IF Len(Cur.data_stack) = 0 THEN Raise("IndexError", Cur)
       ELSE IF ~Truthy(top(Cur)) THEN JumpTo(pop(Cur), Instr.argval.v)
       ELSE Done(pop(Cur))
    /\ UNCHANGED <<dicts, iters>>
    /\ UNCHANGED hist

jump_forward ==
    /\ Dispatch("jump_forward")
    /\ Note
    /\ JumpTo(Cur, Instr.argval.v)
    /\ UNCHANGED <<dicts, iters>>
    /\ UNCHANGED hist

\* ---------------------------------------------------------------- dispatch by name
\* the attributes getattr(self, opname) finds: the methods of Frame
HandlerNames ==
    {"top", "pop", "peek", "push", "popn", "run", "resume", "push_null", "precall", "call",
     "load_name", "load_global", "load_const", "load_fast", "return_value", "return_const",
     "pop_top", "make_function", "store_name", "store_fast", "binary_op", "compare_op",
     "get_iter", "for_iter", "end_for", "jump_backward", "jump_forward",
     "pop_jump_if_false", "pop_jump_is_true", "format_value", "build_string",
     "binary_slice", "build_slice", "binary_subscr", "store_subscr", "store_slice",
     "delete_subscr", "build_tuple", "build_list", "build_set", "list_extend", "load_attr",
     "unpack_sequence", "copy", "swap", "kw_names"}

\* run, line 65: the opcode names no method of Frame, getattr raises
run_getattr_fails ==
    /\ InLoop /\ ~(Instr.opname \in HandlerNames)
    /\ Note
    /\ Raise("AttributeError", Cur)
    /\ UNCHANGED <<dicts, iters>>
    /\ UNCHANGED hist

\* ---------------------------------------------------------------- collections
SetV(s) == [k |-> "set", v |-> s]
Hashable(value) == ~(value.k \in {"list", "set", "dict"})

\* build_tuple, lines 345-352: the slice data_stack[-count:] and the cut
\* data_stack[:-count] are those of popn
build_tuple ==
    /\ Dispatch("build_tuple")
    /\ Note
    /\ LET count == Instr.argval.v
       IN Done(push(popn_frame(Cur, count), <<TupleV(popn_values(Cur, count))>>))
    /\ UNCHANGED <<dicts, iters>>
    /\ UNCHANGED hist

build_list ==
    /\ Dispatch("build_list")
    /\ Note
    /\ LET count == Instr.argval.v
       IN Done(push(popn_frame(Cur, count), <<ListV(popn_values(Cur, count))>>))
    /\ UNCHANGED <<dicts, iters>>
    /\ UNCHANGED hist

\* build_set, lines 360-366: set() raises on an unhashable item before the
\* stack is cut
build_set ==
    /\ Dispatch("build_set")
    /\ Note
    /\ LET count == Instr.argval.v
           items == popn_values(Cur, count)
       IN IF \E i \in 1..Len(items) : ~Hashable(items[i]) THEN Raise("TypeError", Cur)
          ELSE Done(push(popn_frame(Cur, count), <<SetV({items[i] : i \in 1..Len(items)})>>))
    /\ UNCHANGED <<dicts, iters>>
    /\ UNCHANGED hist

\* (variant of StringStep: the popped item goes after the text so far)
StringStep_appends(item, res) == res \o item.v

\* build_string, line 308: res = self.pop() + res
StringStep(item, res) == item.v \o res

\* the loop of lines 307-308 over the items it pops, the top one first
RECURSIVE StringLoop(_, _)
StringLoop(items, res) ==
    IF items = <<>> THEN res
    ELSE StringLoop(SubSeq(items, 1, Len(items) - 1), StringStep(items[Len(items)], res))
Concat(items) == StringLoop(items, "")

\* the items build_string pops before it stops: count of them, fewer when
\* the stack runs out or an item is not a string
RECURSIVE StringItems(_, _)
StringItems(stack, count) ==
    IF count = 0 \/ stack = <<>> \/ stack[Len(stack)].k # "str" THEN <<>>
    ELSE Append(StringItems(SubSeq(stack, 1, Len(stack) - 1), count - 1), stack[Len(stack)])

build_string ==
    /\ Dispatch("build_string")
    /\ Note
    /\ LET count == Instr.argval.v
           items == StringItems(Cur.data_stack, count)
           f1 == popn_frame(Cur, Len(items))
       IN IF Len(items) = count THEN Done(push(f1, <<StrV(Concat(items))>>))
          ELSE IF Len(f1.data_stack) = 0 THEN Raise("IndexError", f1)
          ELSE Raise("TypeError", pop(f1))
    /\ UNCHANGED <<dicts, iters>>
    /\ UNCHANGED hist

\* copy, lines 388-389
copy ==
    /\ Dispatch("copy")
    /\ Note
    /\ LET i == Instr.argval.v
       IN IF ~(i > 0) THEN Raise("AssertionError", Cur)
          ELSE IF i > Len(Cur.data_stack) THEN Raise("IndexError", Cur)
          ELSE Done(push(Cur, <<Cur.data_stack[Slot(Cur, i)]>>))
    /\ UNCHANGED <<dicts, iters>>
    /\ UNCHANGED hist

\* ---------------------------------------------------------------- subscripts
\* store_subscr, lines 329-333, on a mapping (the containers of the model
\* that are shared objects) under a text key
store_subscr ==
    /\ Dispatch("store_subscr")
    /\ Note
    /\ LET key == top(Cur)
           container == top(pop(Cur))
           value == top(pop(pop(Cur)))
       IN IF Len(Cur.data_stack) < 3
          THEN Raise("IndexError", popn_frame(Cur, Len(Cur.data_stack))) /\ UNCHANGED dicts
          ELSE /\ container.k = "dict" /\ key.k = "str"
               /\ Done(pop(pop(pop(Cur))))
               /\ dicts' = [dicts EXCEPT ![container.v] = MapSet(@, key.v, value)]
    /\ UNCHANGED iters
    /\ UNCHANGED hist

\* ---------------------------------------------------------------- programs
\* The code objects handed to the interpreter, as families over small values.
MaxParams == 3    \* the generated functions declare at most MaxParams parameters

SeqsUpTo(S, n) == UNION {[1..k -> S] : k \in 0..n}
IntSeqs == {[i \in 1..Len(q) |-> IntV(q[i])] : q \in SeqsUpTo(Vals, MaxLen)}
Marker == StrV("marker")

\* return-family opcodes at the top level
RetPrograms ==
    {Code(0, <<>>, <<>>, <<OpC("load_const", IntV(a)), OpN("return_value"),
                           OpC("load_const", IntV(b)), OpN("return_value")>>) : a, b \in Vals}
    \cup
    {Code(0, <<>>, <<>>, <<OpC("return_const", IntV(a)),
                           OpC("load_const", IntV(b)), OpN("return_value")>>) : a, b \in Vals}
    \cup
    {Code(0, <<>>, <<>>, <<OpC("load_const", IntV(a)), OpN("pop_top"),
                           OpC("return_const", IntV(b))>>) : a, b \in Vals}

\* return-family opcodes in a callee
RetBodies ==
    {Code(0, <<>>, <<>>, <<OpC("load_const", IntV(a)), OpN("return_value")>>) : a \in Vals}
    \cup {Code(0, <<>>, <<>>, <<OpC("return_const", IntV(a))>>) : a \in Vals}
    \cup {Code(0, <<>>, <<>>, <<OpC("return_const", IntV(a)), OpC("load_const", Marker),
                                OpN("return_value")>>) : a \in Vals}
CallRetPrograms ==
    {Code(0, <<>>, <<>>, <<OpC("load_const", Marker), OpC("load_const", CodeV(body)),
                           OpI("make_function", 0), OpI("call", 0),
                           OpN("return_value")>>) : body \in RetBodies}

\* a function that reads x, built before and called after a store to x
ReadX == Code(0, <<>>, <<>>, <<OpS("load_name", "x"), OpN("return_value")>>)
ClosureOps(store, load, v1, v2) ==
    <<OpC("load_const", IntV(v1)), OpS(store, "x"),
      OpC("load_const", CodeV(ReadX)), OpI("make_function", 0), OpS(store, "g"),
      OpC("load_const", IntV(v2)), OpS(store, "x"),
      OpS(load, "g"), OpI("call", 0), OpN("return_value")>>
ClosurePrograms ==
    \* the defining frame is the root frame
    {Code(0, <<>>, <<"x", "g">>, ClosureOps("store_name", "load_name", v1, v2)) : v1, v2 \in Vals}
    \cup
    \* the defining frame is a callee
    {Code(0, <<>>, <<>>,
          <<OpC("load_const", CodeV(Code(0, <<"x", "g">>, <<>>,
                                         ClosureOps("store_fast", "load_fast", v1, v2)))),
            OpI("make_function", 0), OpI("call", 0), OpN("return_value")>>) : v1, v2 \in Vals}
    \cup
    \* one function per iteration is left on the stack; the first is called
    \* after the loop
    {Code(0, <<>>, <<"x">>,
          <<OpC("load_const", TupleV(<<IntV(v1), IntV(v2)>>)), OpN("get_iter"),
            OpI("for_iter", 16), OpS("store_name", "x"),
            OpC("load_const", CodeV(ReadX)), OpI("make_function", 0), OpI("swap", 2),
            OpI("jump_backward", 4),
            OpN("end_for"), OpN("pop_top"), OpI("call", 0), OpN("return_value")>>) : v1, v2 \in Vals}

\* functions of p parameters built with d defaults (d = -1: built without
\* the defaults component) and called with k positional arguments
ParamNames == <<"a", "b", "c", "d", "e">>
Params(p) == SubSeq(ParamNames, 1, p)
Body(p) ==
    Code(p, Params(p), <<>>,
         IF p = 0 THEN <<OpC("load_const", NoneV), OpN("return_value")>>
         ELSE <<OpS("load_fast", ParamNames[p]), OpN("return_value")>>)
DefaultsTuple(d) == TupleV([j \in 1..d |-> StrV(<<"d0", "d1", "d2", "d3", "d4">>[j])])
Args(k) == [i \in 1..k |-> OpC("load_const", IntV(i - 1))]
ArityPrograms ==
    {Code(0, <<>>, <<>>,
          <<OpC("load_const", Marker), OpC("load_const", CodeV(Body(p)))>>
          \o (IF d >= 0 THEN <<OpC("load_const", DefaultsTuple(d)), OpI("make_function", 1)>>
              ELSE <<OpI("make_function", 0)>>)
          \o Args(k) \o <<OpI("call", k), OpN("return_value")>>) :
        p \in 0..MaxParams, d \in -1..MaxParams, k \in 0..MaxParams}
    \cup
    \* the components in the order the CPython compiler emits them, with the
    \* other three components present
    {Code(0, <<>>, <<>>,
          <<OpC("load_const", DefaultsTuple(1)), OpC("load_const", CodeV(Body(1))),
            OpI("make_function", 1), OpI("call", 0), OpN("return_value")>>),
     Code(0, <<>>, <<>>,
          <<OpC("load_const", CodeV(Body(1))), OpC("load_const", DefaultsTuple(1)),
            OpC("load_const", NoneV), OpC("load_const", NoneV), OpC("load_const", NoneV),
            OpI("make_function", 15), OpI("call", 0), OpN("return_value")>>)}

\* f(a0, <name>=kw) as the instruction pair kw_names + call
KwValue == StrV("kw")
KwPrograms ==
    {Code(0, <<>>, <<>>,
          <<OpC("load_const", CodeV(Body(3))), OpC("load_const", DefaultsTuple(d)),
            OpI("make_function", 1)>>
          \o Args(k) \o
          <<OpC("load_const", KwValue), OpC("kw_names", TupleV(<<StrV(name)>>)),
            OpI("call", k + 1), OpN("return_value")>>) :
        d \in 0..3, k \in 0..2, name \in {"b", "c"}}

\* method-form and plain attribute loads followed by a call
AttrNames == <<"m", "b", "d", "z">>
AttrPrograms ==
    {Code(0, <<>>, AttrNames,
          <<OpC("load_const", Marker), OpC("load_const", ObjV(o)),
            OpI("load_attr", 2 * (i - 1) + form)>>
          \o Args(n) \o <<OpI("call", n), OpN("return_value")>>) :
        o \in 0..1, i \in 1..4, form \in 0..1, n \in 0..2}

\* loads of x in the root frame, in a callee and in a callee's callee
ScopeRead(load) == <<OpS(load, "x"), OpN("return_value")>>
ScopeBody(hasParam, localStore, load, nested) ==
    Code(IF hasParam THEN 1 ELSE 0, <<"x">>, <<>>,
         (IF localStore THEN <<OpC("load_const", StrV("local")), OpS("store_fast", "x")>>
          ELSE <<>>)
         \o (IF nested
             THEN <<OpC("load_const", CodeV(Code(0, <<>>, <<>>, ScopeRead(load)))),
                    OpI("make_function", 0), OpI("call", 0), OpN("return_value")>>
             ELSE ScopeRead(load)))
ScopePrograms ==
    {Code(0, <<>>, <<"x">>,
          (IF globalStore THEN <<OpC("load_const", IntV(v)), OpS("store_name", "x")>> ELSE <<>>)
          \o <<OpC("load_const", CodeV(ScopeBody(hasParam, localStore, load, nested))),
               OpI("make_function", 0)>>
          \o (IF hasParam THEN <<OpC("load_const", StrV("param"))>> ELSE <<>>)
          \o <<OpI("call", IF hasParam THEN 1 ELSE 0), OpN("pop_top")>>
          \o ScopeRead(load)) :
        v \in Vals, globalStore \in BOOLEAN, hasParam \in BOOLEAN, localStore \in BOOLEAN,
        load \in {"load_name", "load_global"}, nested \in BOOLEAN}

\* for loops: the body either stores the item or leaves it below the iterator
LoopPrograms ==
    {Code(0, <<>>, <<"x">>,
          <<OpC("load_const", Marker), OpC("load_const", Marker),
            OpC("load_const", [k |-> kind, v |-> q]), OpN("get_iter"),
            OpI("for_iter", 14), body, OpI("jump_backward", 8),
            OpN("end_for"), OpC("return_const", NoneV)>>) :
        q \in IntSeqs, kind \in {"tuple", "list"},
        body \in {OpS("store_name", "x"), OpI("swap", 2)}}

\* sequence unpacking followed by the stores that consume the items
UnpackNames == <<"u1", "u2", "u3", "u4", "u5">>
UnpackPrograms ==
    {Code(0, <<>>, <<>>,
          <<OpC("load_const", Marker), OpC("load_const", TupleV(q)), OpI("unpack_sequence", n)>>
          \o [i \in 1..n |-> OpS("store_name", UnpackNames[i])]
          \o <<OpN("return_value")>>) :
        q \in IntSeqs, n \in 0..(MaxLen + 1)}

\* push(a); push(b); op, for every operator code and name, the codes and
\* names without an implementation included
IntRange == (-MaxVal)..MaxVal
BinaryCodes == 0..26
CompareNames == {"<", "<=", "==", "!=", ">", ">=", "in", "not in", "is", "is not",
                 "exception match", "BAD", "<>"}
OperatorPrograms ==
    {Code(0, <<>>, <<>>,
          <<OpC("load_const", Marker), OpC("load_const", IntV(a)), OpC("load_const", IntV(b)),
            OpI("binary_op", op), OpN("return_value")>>) :
        a \in IntRange, b \in IntRange, op \in BinaryCodes}
    \cup
    {Code(0, <<>>, <<>>,
          <<OpC("load_const", Marker), OpC("load_const", IntV(a)), OpC("load_const", IntV(b)),
            OpS("compare_op", op), OpN("return_value")>>) :
        a \in IntRange, b \in IntRange, op \in CompareNames}

\* def fact(n): if n <= 1: return 1 / return n * fact(n - 1), then fact(N):
\* the base case returns its constant by load_const + return_value or, as
\* the host's compiler emits it, by return_const
FactBody(byConst) ==
    Code(1, <<"n">>, <<"fact">>,
         <<OpS("load_fast", "n"), OpC("load_const", IntV(1)), OpS("compare_op", "<="),
           OpI("pop_jump_if_false", IF byConst THEN 10 ELSE 12)>>
         \o (IF byConst THEN <<OpC("return_const", IntV(1))>>
             ELSE <<OpC("load_const", IntV(1)), OpN("return_value")>>)
         \o <<OpS("load_fast", "n"), OpS("load_global", "fact"), OpS("load_fast", "n"),
              OpC("load_const", IntV(1)), OpI("binary_op", 10), OpI("call", 1),
              OpI("binary_op", 5), OpN("return_value")>>)
FactPrograms ==
    {Code(0, <<>>, <<"fact">>,
          <<OpC("load_const", CodeV(FactBody(byConst))), OpI("make_function", 0),
            OpS("store_name", "fact"), OpS("load_name", "fact"),
            OpC("load_const", IntV(n)), OpI("call", 1), OpN("return_value")>>) :
        n \in 0..5, byConst \in BOOLEAN}

\* a call whose argument binds a parameter named like a name of the caller
OverridePrograms ==
    {Code(0, <<>>, <<"a">>,
          <<OpC("load_const", IntV(v)), OpS("store_name", "a"), OpC("load_const", Marker),
            OpC("load_const", CodeV(Body(1))), OpI("make_function", 0),
            OpC("load_const", StrV("arg")), OpI("call", 1), OpN("return_value")>>) :
        v \in Vals}

\* a jump at offset 2 (a for_iter over the empty tuple at offset 4) to each
\* offset of the sequence, its own included, and to an offset that is absent
JumpTail ==
    <<OpC("load_const", StrV("a")), OpN("return_value"),
      OpC("load_const", StrV("b")), OpN("return_value")>>
JumpPrograms ==
    {Code(0, <<>>, <<>>, <<OpC("load_const", cond), OpI(op, target)>> \o JumpTail) :
        cond \in {BoolV(FALSE), BoolV(TRUE)},
        op \in {"jump_forward", "jump_backward", "pop_jump_if_false", "pop_jump_if_true"},
        target \in {2, 4, 8, 12}}
    \cup
    {Code(0, <<>>, <<>>, <<OpC("load_const", BoolV(FALSE)), OpI("pop_jump_if_false", 0)>>
                         \o JumpTail)}
    \cup
    {Code(0, <<>>, <<>>, <<OpC("load_const", TupleV(<<>>)), OpN("get_iter"),
                           OpI("for_iter", target)>> \o JumpTail) :
        target \in {4, 6, 10, 14}}

\* a marker, the items, then a collection built from the top n slots
Pushes(q) == [i \in 1..Len(q) |-> OpC("load_const", q[i])]
TextSeqs == {[i \in 1..Len(q) |-> StrV(q[i])] : q \in SeqsUpTo({"x", "yz"}, MaxLen)}
BuildPrograms ==
    {Code(0, <<>>, <<>>,
          <<OpC("load_const", Marker)>> \o Pushes(q)
          \o <<OpI(op, n), OpN("return_value")>>) :
        q \in IntSeqs \cup TextSeqs, n \in 0..(MaxLen + 1),
        op \in {"build_tuple", "build_list", "build_set", "build_string"}}
    \cup
    {Code(0, <<>>, <<>>,
          <<OpC("load_const", IntV(0)), OpI("build_list", 1), OpI("build_set", 1),
            OpN("return_value")>>)}

\* a marker, the items, then copy(i) or swap(i)
ShufflePrograms ==
    {Code(0, <<>>, <<>>,
          <<OpC("load_const", Marker)>> \o Pushes(q)
          \o <<OpI(op, i), OpN("return_value")>>) :
        q \in IntSeqs, i \in 0..(MaxLen + 2), op \in {"copy", "swap"}}

\* len.__self__.__dict__[name] = v, then a read of the name
ReflectNames == <<"len", "__self__", "__dict__", "x">>
ReflectPrograms ==
    {Code(0, <<>>, ReflectNames,
          <<OpC("load_const", IntV(v)), OpS("load_name", "len"),
            OpI("load_attr", 2), OpI("load_attr", 4),
            OpC("load_const", StrV(name)), OpN("store_subscr"),
            OpS("load_name", name), OpN("return_value")>>) :
        v \in Vals, name \in {"len", "x"}}

\* x is bound at the top level, a function built there stores x, and x is
\* read back after the call
ChildStorePrograms ==
    {Code(0, <<>>, <<"x">>,
          <<OpC("load_const", IntV(v)), OpS("store_name", "x"),
            OpC("load_const",
                CodeV(Code(0, <<"x">>, <<"x">>,
                           <<OpC("load_const", StrV("child")), OpS(store, "x"),
                             OpS("load_name", "x"), OpN("return_value")>>))),
            OpI("make_function", 0), OpI("call", 0), OpN("pop_top"),
            OpS(load, "x"), OpN("return_value")>>) :
        v \in Vals, store \in {"store_name", "store_fast"},
        load \in {"load_name", "load_global"}}

Programs ==
    RetPrograms \cup CallRetPrograms \cup ClosurePrograms \cup ArityPrograms \cup KwPrograms
    \cup AttrPrograms \cup ScopePrograms \cup LoopPrograms \cup UnpackPrograms
    \cup OperatorPrograms
    \cup FactPrograms
    \cup OverridePrograms
    \cup JumpPrograms
    \cup BuildPrograms
    \cup ShufflePrograms
    \cup ReflectPrograms
    \cup ChildStorePrograms

\* the host's builtins: with and without the name x
BuiltinsChoices ==
    {EmptyMap, [n \in {"x"} |-> StrV("builtin")], [n \in {"len"} |-> BuiltinV("len")]}

\* ---------------------------------------------------------------- entry point
Start(frame, heap) ==
    /\ frames = <<frame>>
    /\ dicts = heap
    /\ iters = <<>>
    /\ status = "running"
    /\ result = NoneV
    /\ last = [opname |-> "<start>", argval |-> NoneV, arg |-> 0, depth |-> 0,
               pre |-> Frame(Code(0, <<>>, <<>>, <<>>), 1, 2, 2)]
    /\ hist = [built |-> <<>>, stored |-> EmptyMap]

\* VirtualMachine.run: dict 1 is the host's builtins, dict 2 the fresh
\* globals_context passed as both globals and locals of the root frame
Init ==
    \E code_obj \in Programs, b \in BuiltinsChoices :
        Start(Frame(code_obj, 1, 2, 2), <<b, EmptyMap>>)

\* A Frame the host constructs itself, with three mappings of its choice:
\* each has x or not, under a value that tells the mappings apart
ScopeChoices(tag) == {EmptyMap, [n \in {"x"} |-> StrV(tag)]}
ProbePrograms ==
    {Code(0, <<>>, <<"x">>, ScopeRead(load)) : load \in {"load_name", "load_global"}}
    \cup
    {Code(0, <<>>, <<"x">>, <<OpC("load_const", IntV(v)), OpS("store_name", "x")>>
                            \o ScopeRead(load)) :
        v \in Vals, load \in {"load_name", "load_global"}}
InitFrame ==
    \/ Init
    \/ \E code_obj \in ProbePrograms, b \in ScopeChoices("builtin"),
          g \in ScopeChoices("global"), l \in ScopeChoices("local") :
           Start(Frame(code_obj, 1, 2, 3), <<b, g, l>>)

Next ==
    \/ run_return_value
    \/ run_end
    \/ return_const
    \/ load_const
    \/ pop_top
    \/ load_name
    \/ load_global
    \/ load_fast
    \/ store_name
    \/ store_fast
    \/ make_function
    \/ call
    \/ kw_names
    \/ load_attr
    \/ get_iter
    \/ for_iter
    \/ end_for
    \/ jump_backward
    \/ unpack_sequence
    \/ swap
    \/ binary_op
    \/ compare_op
    \/ pop_jump_if_false
    \/ jump_forward
    \/ run_getattr_fails
    \/ build_tuple
    \/ build_list
    \/ build_set
    \/ build_string
    \/ copy
    \/ store_subscr

Spec == Init /\ [][Next]_vars

\* runs of frames constructed by the host as well as by the entry point
SpecFrame == InitFrame /\ [][Next]_vars

\* ================================================================ claims
\* the frame that executed the latest instruction, as it is now
Now == frames[last.depth]
Ran(op) == last.opname = op
\* the latest step ended normally, the frame that took it still on the stack
Ok == status = "running" /\ Len(frames) >= last.depth

\* ---------------------------------------------------------------- C1
\* what the step about to be taken hands to the caller of the executing
\* frame's run: the value returned to VirtualMachine.run for the root frame,
\* else the value pushed on the caller's stack as the frame is discarded
Yields(val) ==
    IF Depth = 1 THEN status' = "returned" /\ result' = val
    ELSE /\ status' = "running" /\ Len(frames') = Depth - 1
         /\ frames'[Depth - 1].data_stack = Append(frames[Depth - 1].data_stack, val)

\* C1: when the dispatcher reaches return_value (with a value on the stack)
\* or return_const, the step ends the frame's run and yields the popped top,
\* respectively the constant operand, to the caller; no later instruction of
\* the frame runs.
C1_ReturnFamilyEndsRun ==
    [][(/\ Dispatch("return_value") /\ Len(Cur.data_stack) > 0 => Yields(top(Cur)))
       /\ (Dispatch("return_const") => Yields(Instr.argval))]_vars

\* ---------------------------------------------------------------- calls
\* the call step about to be taken: its operand, the callable below the
\* arguments, and whether the step starts a child frame
CallN == Instr.argval.v
CallArgs == popn_values(Cur, CallN)
Callee == Cur.data_stack[Len(Cur.data_stack) - CallN]
CallsFunction ==
    /\ Dispatch("call") /\ Len(Cur.data_stack) > CallN
    /\ Callee.k = "function" /\ Callee.v.code.k = "code"
CallCreates == CallsFunction /\ Len(frames') = Depth + 1
Child == frames'[Depth + 1]
ChildLocals == dicts'[Child.locals]
ParamsOf(fn) == {fn.code.v.co_varnames[i] : i \in 1..fn.code.v.co_argcount}
DefaultsOf(fn) == IF fn.has_defaults THEN fn.defaults.v ELSE <<>>

C3_MissingArgumentFails ==
    [][(/\ CallsFunction
        /\ \E i \in 0..(Callee.v.code.v.co_argcount - 1) :
               i >= CallN /\ i < Callee.v.code.v.co_argcount - Len(DefaultsOf(Callee.v)))
       => /\ status' = "raised"
          /\ Len(frames') = Depth
          /\ frames'[Depth].data_stack =
                 SubSeq(Cur.data_stack, 1, Len(Cur.data_stack) - CallN - 1)]_vars

\* ---------------------------------------------------------------- C4
\* the keyword names of the call about to be taken: the operand of the
\* kw_names instruction right before it, none without one
KwNames ==
    IF Cur.ind_op >= 1 /\ instructions(Cur)[Cur.ind_op].opname = "kw_names"
    THEN [j \in 1..Len(instructions(Cur)[Cur.ind_op].argval.v) |->
             instructions(Cur)[Cur.ind_op].argval.v[j].v]
    ELSE <<>>
KwCount == Len(KwNames)
Positional == SubSeq(CallArgs, 1, CallN - KwCount)
\* the value the claim binds to parameter i (counted from 0)
Expected(i) ==
    LET fn == Callee.v
        p == fn.code.v.co_argcount
        d == Len(DefaultsOf(fn))
        name == fn.code.v.co_varnames[i + 1]
    IN IF \E j \in 1..KwCount : KwNames[j] = name
       THEN CallArgs[CallN - KwCount + (CHOOSE j \in 1..KwCount : KwNames[j] = name)]
       ELSE IF i < Len(Positional) THEN Positional[i + 1]
       ELSE DefaultsOf(fn)[i - (p - d) + 1]

\* C4: with p - d <= k <= p positional arguments, parameter i is bound to
\* args[i] for i < k and to defaults[i - (p - d)] otherwise, and a keyword
\* argument of the call (named by kw_names) replaces the value of its
\* parameter.
C4_BindingWithKeywords ==
    [][(/\ CallsFunction
        /\ KwCount <= CallN
        /\ Len(DefaultsOf(Callee.v)) <= Callee.v.code.v.co_argcount
        /\ Callee.v.code.v.co_argcount - Len(DefaultsOf(Callee.v)) <= Len(Positional)
        /\ Len(Positional) <= Callee.v.code.v.co_argcount
        /\ \A j \in 1..KwCount : KwNames[j] \in ParamsOf(Callee.v))
       => /\ Len(frames') = Depth + 1
          /\ \A i \in 0..(Callee.v.code.v.co_argcount - 1) :
                 /\ Callee.v.code.v.co_varnames[i + 1] \in DOMAIN ChildLocals
                 /\ ChildLocals[Callee.v.code.v.co_varnames[i + 1]] = Expected(i)]_vars

\* ---------------------------------------------------------------- C5
\* the call about to be taken follows a method-form load_attr and its
\* arguments, and the pair the load pushed is (method, receiver)
MethodCall ==
    /\ Dispatch("call") /\ Len(Cur.data_stack) >= CallN + 2
    /\ Cur.ind_op >= CallN + 1
    /\ instructions(Cur)[Cur.ind_op - CallN].opname = "load_attr"
    /\ instructions(Cur)[Cur.ind_op - CallN].arg % 2 = 1
    /\ Cur.data_stack[Len(Cur.data_stack) - CallN - 1].k = "method"
    /\ Cur.data_stack[Len(Cur.data_stack) - CallN - 1].v.recv = Callee

\* C5: such a call invokes the method with the receiver as first argument
\* and the n arguments after it, and replaces the operand of the load by the
\* return value alone.
C5_MethodCall ==
    [][MethodCall =>
          /\ status' = "running"
          /\ frames'[Depth].data_stack =
                 Append(SubSeq(Cur.data_stack, 1, Len(Cur.data_stack) - CallN - 2),
                        MethodResult(Cur.data_stack[Len(Cur.data_stack) - CallN - 1].v,
                                     CallArgs))]_vars

\* ---------------------------------------------------------------- C6
\* the three mappings of the frame that took the latest step
Scope(which) == dicts[last.pre[which]]
Name == last.argval.v
Pushed(val) == Ok /\ Now.data_stack = Append(last.pre.data_stack, val)
Failed(exc) ==
    status = "raised" /\ result = ExcV(exc) /\ Now.data_stack = last.pre.data_stack

\* C6: load_name pushes exactly one value, taken from the first of locals,
\* globals, builtins that has the name, and with the name in none of them it
\* raises the name error and pushes nothing.
C6_LoadNameOrder ==
    Ran("load_name") =>
        IF Name \in DOMAIN Scope("locals") THEN Pushed(Scope("locals")[Name])
        ELSE IF Name \in DOMAIN Scope("globals") THEN Pushed(Scope("globals")[Name])
        ELSE IF Name \in DOMAIN Scope("builtins") THEN Pushed(Scope("builtins")[Name])
        ELSE Failed("NameError")

\* load_name found the name in globals and builtins but not in locals
C6_Witness ==
    /\ Ran("load_name") /\ Ok
    /\ Name \notin DOMAIN Scope("locals")
    /\ Name \in DOMAIN Scope("globals") /\ Name \in DOMAIN Scope("builtins")
    /\ Scope("globals")[Name] # Scope("builtins")[Name]
    /\ top(Now) = Scope("globals")[Name]

\* ---------------------------------------------------------------- C7
\* C7: in a frame whose locals and globals are distinct mappings load_global
\* pushes the globals value if the name is in globals, else the builtins
\* value, else raises the name error, whatever locals holds.
C7_LoadGlobalSkipsLocals ==
    (Ran("load_global") /\ last.pre.locals # last.pre.globals) =>
        IF Name \in DOMAIN Scope("globals") THEN Pushed(Scope("globals")[Name])
        ELSE IF Name \in DOMAIN Scope("builtins") THEN Pushed(Scope("builtins")[Name])
        ELSE Failed("NameError")

\* load_global failed on a name that only the frame's locals hold
C7_Witness ==
    /\ Ran("load_global") /\ last.pre.locals # last.pre.globals
    /\ Name \in DOMAIN Scope("locals")
    /\ Name \notin DOMAIN Scope("globals") /\ Name \notin DOMAIN Scope("builtins")
    /\ status = "raised" /\ result = ExcV("NameError")

\* ---------------------------------------------------------------- C8
\* C8: the root frame's locals and globals are one mapping; a store_name or
\* store_fast pops one value and changes the executing frame's locals
\* mapping and no other; a load_global of a name the root frame has stored
\* pushes the value of the root frame's latest store of it, in any frame.
C8_StoreThenGlobalLoad ==
    [][/\ Depth >= 1 => frames[1].locals = frames[1].globals
       /\ (/\ Dispatch("store_name") \/ Dispatch("store_fast")
           /\ Len(Cur.data_stack) > 0)
          => /\ frames'[Depth].data_stack = SubSeq(Cur.data_stack, 1, Len(Cur.data_stack) - 1)
             /\ dicts' = [dicts EXCEPT ![Cur.locals] = MapSet(@, Instr.argval.v, top(Cur))]
       /\ (Dispatch("load_global") /\ Instr.argval.v \in DOMAIN hist.stored)
          => /\ status' = "running"
             /\ frames'[Depth].data_stack =
                    Append(Cur.data_stack, hist.stored[Instr.argval.v])]_vars

\* a callee's callee loaded the global x and got the root frame's store,
\* while its own locals hold another value for x
C8_Witness ==
    /\ Ran("load_global") /\ Ok /\ last.depth >= 3
    /\ Name \in DOMAIN hist.stored
    /\ top(Now) = hist.stored[Name]
    /\ Name \in DOMAIN Scope("locals") /\ Scope("locals")[Name] # hist.stored[Name]

\* ---------------------------------------------------------------- C9
\* the frame runs one of the loops of LoopPrograms
IsLoop(f) ==
    /\ Len(f.code.instructions) = 9
    /\ f.code.instructions[4].opname = "get_iter"
    /\ f.code.instructions[5].opname = "for_iter"
LoopItems(f) == f.code.instructions[3].argval.v
LoopBody(f) == f.code.instructions[6].opname

\* after end_for the two slots below the sequence are all that is left, with
\* the items above them, in order, when the body kept them on the stack
LoopEnded ==
    (Ran("end_for") /\ Ok /\ IsLoop(Now)) =>
        /\ Now.data_stack = <<Marker, Marker>> \o
                            (IF LoopBody(Now) = "swap" THEN LoopItems(Now) ELSE <<>>)
        /\ (LoopBody(Now) = "store_name" /\ Len(LoopItems(Now)) > 0) =>
               dicts[Now.locals]["x"] = LoopItems(Now)[Len(LoopItems(Now))]

\* the operand of the for_iter about to run is the offset of an instruction
\* after it: the exit of a loop
LoopExitFollows ==
    \E i \in (Cur.ind_op + 2)..Len(instructions(Cur)) :
        instructions(Cur)[i].offset = Instr.argval.v

\* C9: get_iter replaces the sequence by a fresh iterator; for_iter on an
\* iterator with items left pushes the next item above the iterator and goes
\* on with the next instruction; on an exhausted iterator, which has given
\* each of the k items once, it pushes nothing and goes to the instruction at
\* its operand offset, the iterator still on top; end_for pops it, leaving
\* one slot less than before get_iter.
C9_LoopProtocol ==
    [][/\ (Dispatch("get_iter") /\ Len(Cur.data_stack) > 0 /\ IsSeq(top(Cur)))
          => /\ frames'[Depth].data_stack = Append(pop(Cur).data_stack, IterV(Len(iters) + 1))
             /\ iters' = Append(iters, [seq |-> top(Cur).v, pos |-> 0])
       /\ (Dispatch("for_iter") /\ Len(Cur.data_stack) > 0 /\ top(Cur).k = "iter"
           /\ LoopExitFollows)
          => LET it == iters[top(Cur).v] IN
             IF it.pos < Len(it.seq)
             THEN /\ frames'[Depth].data_stack = Append(Cur.data_stack, it.seq[it.pos + 1])
                  /\ iters' = [iters EXCEPT ![top(Cur).v].pos = it.pos + 1]
                  /\ frames'[Depth].ind_op = Cur.ind_op + 1
             ELSE /\ it.pos = Len(it.seq)
                  /\ frames'[Depth].data_stack = Cur.data_stack
                  /\ iters' = iters
                  /\ instructions(Cur)[frames'[Depth].ind_op + 1].offset = Instr.argval.v
       /\ (Dispatch("end_for") /\ Len(Cur.data_stack) > 0)
          => frames'[Depth].data_stack = SubSeq(Cur.data_stack, 1, Len(Cur.data_stack) - 1)
       /\ LoopEnded']_vars

\* end_for has popped the exhausted iterator of a sequence of two or more
\* items, all of which the loop body left on the stack
C9_Witness ==
    /\ Ran("end_for") /\ Ok /\ IsLoop(Now)
    /\ top(last.pre).k = "iter"
    /\ iters[top(last.pre).v].pos = Len(iters[top(last.pre).v].seq)
    /\ Len(LoopItems(Now)) >= 2
    /\ LoopBody(Now) = "swap"
    /\ Len(Now.data_stack) = 2 + Len(LoopItems(Now))

\* ---------------------------------------------------------------- C10
\* the frame runs one of UnpackPrograms and has done its n stores
IsUnpack(f) ==
    /\ Len(f.code.instructions) >= 3
    /\ f.code.instructions[3].opname = "unpack_sequence"
UnpackCount(f) == f.code.instructions[3].argval.v
UnpackItems(f) == f.code.instructions[2].argval.v
Unpacked(f) == IsUnpack(f) /\ f.ind_op = 3 + UnpackCount(f)

\* C10: unpack_sequence of count n on a sequence of length m succeeds iff
\* m = n; it then replaces the sequence by its items, last item deepest, so
\* that the n stores that follow receive the items first to last; for
\* m # n it raises the assertion error and leaves the stack as it was.
C10_UnpackSequence ==
    /\ (Ran("unpack_sequence") /\ Len(last.pre.data_stack) > 0 /\ IsSeq(top(last.pre))) =>
           IF Len(top(last.pre).v) = last.argval.v
           THEN /\ Ok
                /\ Now.data_stack = pop(last.pre).data_stack \o Reverse(top(last.pre).v)
           ELSE Failed("AssertionError")
    /\ (status = "running" /\ Depth = 1 /\ Unpacked(Cur)) =>
           \A i \in 1..UnpackCount(Cur) :
               dicts[Cur.locals][UnpackNames[i]] = UnpackItems(Cur)[i]

\* the stores after an unpacking of two or more items, the first two
\* different, have all run
C10_Witness ==
    /\ status = "running" /\ Depth = 1 /\ Unpacked(Cur)
    /\ UnpackCount(Cur) >= 2
    /\ UnpackItems(Cur)[1] # UnpackItems(Cur)[2]
    /\ dicts[Cur.locals]["u1"] = UnpackItems(Cur)[1]
    /\ dicts[Cur.locals]["u2"] = UnpackItems(Cur)[2]

\* ---------------------------------------------------------------- C11
\* the operator an operand of binary_op stands for (the host's table of
\* operator codes; codes 13..25 are the in-place forms of 0..12)
OperatorOf(op) ==
    IF op \in 0..25
    THEN <<"+", "&", "//", "<<", "@", "*", "%", "|", "**", ">>", "-", "/", "^">>[(op % 13) + 1]
    ELSE "?"
\* a op b for integers, as the host language defines it
Apply(sym, a, b) ==
    CASE sym = "+" -> IntV(a + b)
      [] sym = "-" -> IntV(a - b)
      [] sym = "*" -> IntV(a * b)
      [] sym = "/" -> IF b = 0 THEN ExcV("ZeroDivisionError") ELSE FloatV(a, b)
      [] sym = "//" -> IF b = 0 THEN ExcV("ZeroDivisionError") ELSE IntV(FloorDiv(a, b))
      [] sym = "%" -> IF b = 0 THEN ExcV("ZeroDivisionError") ELSE IntV(Mod(a, b))
      [] sym = "&" -> IntV(Bitwise("&", a, b))
      [] sym = "|" -> IntV(Bitwise("|", a, b))
      [] sym = "^" -> IntV(Bitwise("^", a, b))
      [] sym = "**" -> IF b >= 0 THEN IntV(Pow(a, b))
                       ELSE IF a = 0 THEN ExcV("ZeroDivisionError")
                       ELSE FloatV(1, Pow(a, -b))
      [] sym = "<<" -> IF b < 0 THEN ExcV("ValueError") ELSE IntV(a * Pow(2, b))
      [] sym = ">>" -> IF b < 0 THEN ExcV("ValueError") ELSE IntV(a \div Pow(2, b))
      [] sym = "<" -> BoolV(a < b)
      [] sym = "<=" -> BoolV(a <= b)
      [] sym = "==" -> BoolV(a = b)
      [] sym = "!=" -> BoolV(a # b)
      [] sym = ">" -> BoolV(a > b)
      [] sym = ">=" -> BoolV(a >= b)
      [] sym = "is" -> BoolV(a = b)
      [] sym = "is not" -> BoolV(a # b)
      [] OTHER -> ExcV("NotImplementedError")
\* the operator of the latest step, "?" for a compare_op name that is no
\* comparison of integers
LastOperator ==
    IF Ran("binary_op") THEN OperatorOf(last.argval.v)
    ELSE IF last.argval.v \in {"<", "<=", "==", "!=", ">", ">=", "is", "is not"}
    THEN last.argval.v ELSE "?"
\* the two operands in the order they were pushed, and the slots below them
FirstPushed == last.pre.data_stack[Len(last.pre.data_stack) - 1]
SecondPushed == last.pre.data_stack[Len(last.pre.data_stack)]
Deeper == SubSeq(last.pre.data_stack, 1, Len(last.pre.data_stack) - 2)

\* C11: after push(a); push(b); op on integers the two operands are replaced
\* by a op b, a being the left operand, and the slots below are unchanged;
\* where a op b raises in the host (division by zero, negative shift count)
\* the step raises the same and pushes nothing; an operator code or name
\* without an implementation raises NotImplementedError and pushes nothing.
C11_OperatorResults ==
    ((Ran("binary_op") \/ Ran("compare_op"))
     /\ Len(last.pre.data_stack) >= 2 /\ FirstPushed.k = "int" /\ SecondPushed.k = "int"
     /\ ~(Ran("compare_op") /\ last.argval.v \in {"in", "not in", "exception match", "BAD"}))
    => LET res == Apply(LastOperator, FirstPushed.v, SecondPushed.v) IN
       IF res.k = "exception"
       THEN status = "raised" /\ result = res /\ Now.data_stack = Deeper
       ELSE Ok /\ Now.data_stack = Append(Deeper, res)

\* a subtraction of two different integers has replaced them by first minus
\* second, above an unchanged slot
C11_Witness ==
    /\ Ran("binary_op") /\ Ok /\ OperatorOf(last.argval.v) = "-"
    /\ FirstPushed.k = "int" /\ SecondPushed.k = "int" /\ FirstPushed # SecondPushed
    /\ Now.data_stack = <<Marker, IntV(FirstPushed.v - SecondPushed.v)>>

\* ---------------------------------------------------------------- C12
RECURSIVE Factorial(_)
Factorial(n) == IF n <= 0 THEN 1 ELSE n * Factorial(n - 1)
\* the code is one of FactPrograms, and the argument its call passes
IsFactUnit(code) ==
    /\ Len(code.instructions) = 7
    /\ code.instructions[3].opname = "store_name"
    /\ code.instructions[3].argval = StrV("fact")
FactArg(code) == code.instructions[5].argval.v

\* C12: a unit that builds the recursive factorial and calls it with n in
\* 0..5 never raises; the k-th nested child frame runs fact(n - k + 1); each
\* child frame that returns leaves the factorial of its argument on its
\* caller's stack; and the unit returns n!.
C12_Factorial ==
    /\ (Depth >= 1 /\ IsFactUnit(frames[1].code)) =>
           /\ status # "raised"
           /\ \A j \in 2..Depth :
                  dicts[frames[j].locals]["n"] = IntV(FactArg(frames[1].code) - (j - 2))
    /\ (last.depth >= 2 /\ Ok /\ IsFactUnit(frames[1].code)
        /\ last.opname \in {"return_value", "<end>"}) =>
           top(frames[last.depth - 1]) = IntV(Factorial(dicts[last.pre.locals]["n"].v))
    /\ (status = "returned" /\ IsFactUnit(last.pre.code)) =>
           result = IntV(Factorial(FactArg(last.pre.code)))

\* ---------------------------------------------------------------- C13
\* the locals the claim gives the child frame of the call about to be taken:
\* the environment of the function, a bound parameter replacing the entry of
\* its name
CallEnvironment == dicts[Callee.v.locals]
BoundParams ==
    LET fn == Callee.v
        p == fn.code.v.co_argcount
    IN {i \in 1..p : i <= CallN \/ i > p - Len(DefaultsOf(fn))}
BoundValue(i) ==
    LET fn == Callee.v
    IN IF i <= CallN THEN CallArgs[i]
       ELSE DefaultsOf(fn)[i - (fn.code.v.co_argcount - Len(DefaultsOf(fn)))]
ExpectedLocals ==
    LET names == Callee.v.code.v.co_varnames
    IN [x \in DOMAIN CallEnvironment \cup {names[i] : i \in BoundParams} |->
           IF \E i \in BoundParams : names[i] = x
           THEN BoundValue(CHOOSE i \in BoundParams : names[i] = x)
           ELSE CallEnvironment[x]]
\* the value a frame that ends its run with the step about to be taken returns
Returned == IF Dispatch("return_value") THEN top(Cur) ELSE NoneV

JumpTaken ==
    \/ Dispatch("jump_backward")
    \/ Dispatch("jump_forward")
    \/ Dispatch("pop_jump_if_false") /\ Len(Cur.data_stack) > 0 /\ ~Truthy(top(Cur))
    \/ /\ Dispatch("for_iter") /\ Len(Cur.data_stack) > 0 /\ top(Cur).k = "iter"
       /\ iters[top(Cur).v].pos >= Len(iters[top(Cur).v].seq)
JumpOperand == Instr.argval.v

\* C14: after a taken jump whose operand is an offset of the sequence, the
\* offset of the jump itself included, the frame's next instruction is the
\* one at that offset; after any other handler that ends normally in the
\* same frame, it is the instruction at the next index.
C14_JumpTargets ==
    [][/\ (JumpTaken /\ \E i \in 1..Len(instructions(Cur)) :
                            instructions(Cur)[i].offset = JumpOperand) =>
              /\ status' = "running" /\ Len(frames') = Depth
              /\ instructions(Cur)[frames'[Depth].ind_op + 1].offset = JumpOperand
       /\ (InLoop /\ ~JumpTaken /\ status' = "running" /\ Len(frames') = Depth) =>
              frames'[Depth].ind_op = Cur.ind_op + 1]_vars

\* ---------------------------------------------------------------- C15
\* the frame after a conditional jump that popped its value and, when jumps
\* is true, went to the instruction at the operand, else to the next one
\* (operands other than the jump's own offset, see C14)
CondJumpDone(jumps) ==
    /\ status' = "running" /\ Len(frames') = Depth
    /\ frames'[Depth].data_stack = pop(Cur).data_stack
    /\ IF jumps
       THEN instructions(Cur)[frames'[Depth].ind_op + 1].offset = JumpOperand
       ELSE frames'[Depth].ind_op = Cur.ind_op + 1
CondJumpReady(op) ==
    /\ Dispatch(op) /\ Len(Cur.data_stack) > 0
    /\ JumpOperand # Instr.offset
    /\ \E i \in 1..Len(instructions(Cur)) : instructions(Cur)[i].offset = JumpOperand

\* C15: pop_jump_if_false and pop_jump_if_true are both executed by the main
\* loop; each pops exactly one value, taken or not; pop_jump_if_false goes to
\* its target iff the value is falsy, pop_jump_if_true iff it is truthy, and
\* otherwise the next instruction follows.
C15_ConditionalJumps ==
    [][/\ CondJumpReady("pop_jump_if_false") => CondJumpDone(~Truthy(top(Cur)))
       /\ CondJumpReady("pop_jump_if_true") => CondJumpDone(Truthy(top(Cur)))]_vars

\* ---------------------------------------------------------------- C16
\* popn(n) on frame f gives the top n values, the deepest first, and leaves
\* the slots below; pushing the values back gives the stack of f
PopnLaw(f, n) ==
    LET depth == Len(f.data_stack)
        returned == popn_values(f, n)
        rest == popn_frame(f, n).data_stack
    IN /\ Len(returned) = n
       /\ \A i \in 1..n : returned[i] = f.data_stack[depth - n + i]
       /\ Len(rest) = depth - n
       /\ \A i \in 1..(depth - n) : rest[i] = f.data_stack[i]
       /\ n = 0 => returned = <<>> /\ popn_frame(f, n) = f
       /\ push(popn_frame(f, n), returned) = f

\* C16: for the stack of every frame of every reachable state, and of the
\* frame the latest instruction started from, and every n from 0 to its
\* depth, popn(n) returns the top n values deepest first, removes exactly
\* them, and pushing them back restores the stack.
C16_PopnPush ==
    \A f \in {frames[j] : j \in 1..Depth} \cup {last.pre} :
        \A n \in 0..Len(f.data_stack) : PopnLaw(f, n)
\* a call has taken two arguments by popn from a stack of four slots
C16_Witness ==
    /\ last.opname = "call" /\ last.argval.v = 2
    /\ Len(last.pre.data_stack) = 4
    /\ popn_values(last.pre, 2) = <<IntV(0), IntV(1)>>
    /\ Len(frames) = last.depth + 1
    /\ frames[last.depth].data_stack = <<Marker>>

\* ---------------------------------------------------------------- C17
\* the latest instruction was a build of arity n on a stack of at least n
\* slots; the n slots it took, deepest first, and the slots below them
BuildArity == last.argval.v
BuildRan(op) == Ran(op) /\ BuildArity <= Len(last.pre.data_stack)
BuildItems ==
    [i \in 1..BuildArity |-> last.pre.data_stack[Len(last.pre.data_stack) - BuildArity + i]]
BuildBelow == SubSeq(last.pre.data_stack, 1, Len(last.pre.data_stack) - BuildArity)
\* the text made of the first n of the items, in stack order
RECURSIVE TextOf(_)
TextOf(n) == IF n = 0 THEN "" ELSE TextOf(n - 1) \o BuildItems[n].v

\* C17: build_tuple, build_list and build_set of arity n <= depth replace the
\* top n slots by one collection of those slots in stack order (the empty
\* collection for n = 0), the slots below unchanged; build_string of arity n
\* replaces n text slots by their concatenation in stack order.
C17_Builders ==
    /\ BuildRan("build_tuple") => Ok /\ Now.data_stack = Append(BuildBelow, TupleV(BuildItems))
    /\ BuildRan("build_list") => Ok /\ Now.data_stack = Append(BuildBelow, ListV(BuildItems))
    /\ (BuildRan("build_set") /\ \A i \in 1..BuildArity : Hashable(BuildItems[i])) =>
           /\ Ok
           /\ Now.data_stack =
                  Append(BuildBelow, SetV({BuildItems[i] : i \in 1..BuildArity}))
    /\ (BuildRan("build_string") /\ \A i \in 1..BuildArity : BuildItems[i].k = "str") =>
           Ok /\ Now.data_stack = Append(BuildBelow, StrV(TextOf(BuildArity)))
C17_Witness ==
    /\ BuildRan("build_string") /\ BuildArity = 2 /\ Ok
    /\ last.pre.data_stack = <<Marker, StrV("x"), StrV("yz")>>
    /\ Now.data_stack = <<Marker, StrV("xyz")>>

\* ---------------------------------------------------------------- C18
\* the operand of the latest copy or swap, the stack it started from
ShuffleIndex == last.argval.v
Before == last.pre.data_stack
FromTop(i) == Before[Len(Before) + 1 - i]

\* C18: for 1 <= i <= depth, copy(i) pushes a duplicate of the i-th slot from
\* the top and swap(i) exchanges the i-th slot from the top with the top,
\* every other slot unchanged; copy(0) and swap(0) leave the contents and the
\* order of the stack as they were.
C18_CopySwap ==
    /\ (Ran("copy") /\ ShuffleIndex \in 1..Len(Before)) =>
           Ok /\ Now.data_stack = Append(Before, FromTop(ShuffleIndex))
    /\ (Ran("swap") /\ ShuffleIndex \in 1..Len(Before)) =>
           /\ Ok
           /\ Now.data_stack =
                  [j \in 1..Len(Before) |->
                      IF j = Len(Before) THEN FromTop(ShuffleIndex)
                      ELSE IF j = Len(Before) + 1 - ShuffleIndex THEN FromTop(1)
                      ELSE Before[j]]
    /\ ((Ran("copy") \/ Ran("swap")) /\ ShuffleIndex = 0 /\ Len(frames) >= last.depth) =>
           Now.data_stack = Before

\* ---------------------------------------------------------------- C19
\* C19: every frame has the builtins mapping and the globals mapping of the
\* root frame, and no step adds, removes or changes an entry of builtins.
C19_SharedMappings ==
    [][/\ \A j \in 1..Len(frames') :
              /\ frames'[j].builtins = frames'[1].builtins
              /\ frames'[j].globals = frames'[1].globals
       /\ dicts'[frames[1].builtins] = dicts[frames[1].builtins]]_vars

\* ---------------------------------------------------------------- C20
\* the step about to be taken is a store by name in a child frame
ChildStore == (Dispatch("store_name") \/ Dispatch("store_fast")) /\ Depth >= 2

\* C20: a store by name in a child frame writes the child's own locals, a
\* mapping that is neither the globals nor the locals of any frame below it,
\* and leaves every other mapping (globals, the caller's and the defining
\* frame's locals) as it was; no step of a child frame changes the locals or
\* the globals of a frame below it, so the caller's bindings after the call
\* returns are those from before the call.
C20_ChildStoreIsLocal ==
    [][/\ ChildStore =>
              /\ \A j \in 1..(Depth - 1) :
                     Cur.locals \notin {frames[j].locals, frames[j].globals, frames[j].builtins}
              /\ Cur.locals \notin {Cur.globals, Cur.builtins}
              /\ \A d \in 1..Len(dicts) : d # Cur.locals => dicts'[d] = dicts[d]
              /\ (status' = "running") =>
                     dicts'[Cur.locals] = MapSet(dicts[Cur.locals], Instr.argval.v, top(Cur))
       /\ (status = "running" /\ Depth >= 2) =>
              \A j \in 1..(Depth - 1) :
                  /\ dicts'[frames[j].locals] = dicts[frames[j].locals]
                  /\ dicts'[frames[j].globals] = dicts[frames[j].globals]]_vars
\* the child stored x, the call returned, and the top level read its own x
C20_Witness ==
    /\ last.depth = 1 /\ Ok /\ last.opname \in {"load_name", "load_global"}
    /\ last.argval = StrV("x") /\ Now.data_stack = <<IntV(1)>>
    /\ \E d \in 3..Len(dicts) : "x" \in DOMAIN dicts[d] /\ dicts[d]["x"] = StrV("child")

====
